---- MODULE Spec2Model ----
(***************************************************************************)
(* Custom slash-command loading of the CLI: CustomCommandLoader (loading,  *)
(* parsing, validation, hot-reload watcher) and CommandService (merge of   *)
(* built-in and custom commands).                                          *)
(*                                                                         *)
(* Strings are sequences of one-character strings, so that the regular     *)
(* expressions and the string methods of the source can be computed.       *)
(***************************************************************************)
EXTENDS Integers, Sequences, FiniteSets, TLC

(***************************************************************************)
(* Characters and the string methods used by the source                    *)
(***************************************************************************)
Lowers == <<"a","b","c","d","e","f","g","h","i","j","k","l","m",
            "n","o","p","q","r","s","t","u","v","w","x","y","z">>
Uppers == <<"A","B","C","D","E","F","G","H","I","J","K","L","M",
            "N","O","P","Q","R","S","T","U","V","W","X","Y","Z">>
Digits == {"0","1","2","3","4","5","6","7","8","9"}
Range(s) == {s[i] : i \in DOMAIN s}
LowerSet == Range(Lowers)
UpperSet == Range(Uppers)
\* \s of a JavaScript regular expression, as far as the model's alphabet goes
WhiteSpace == {" ", "\t", "\r"}
\* code points outside \x00-\x7F (each token stands for one such code point)
NonAscii == {"U+6A21", "U+5757"}

IsLetter(c) == c \in LowerSet \/ c \in UpperSet
IsNameChar(c) == IsLetter(c) \/ c \in Digits \/ c = "-"

\* String.prototype.toLowerCase on one character
ToLowerChar(c) ==
  IF c \in UpperSet THEN Lowers[CHOOSE i \in DOMAIN Uppers : Uppers[i] = c] ELSE c
ToLowerCase(s) == [i \in DOMAIN s |-> ToLowerChar(s[i])]

\* /^[a-zA-Z][a-zA-Z0-9-]*$/.test(s)
NamePattern(s) == /\ Len(s) >= 1
                  /\ IsLetter(s[1])
                  /\ \A i \in DOMAIN s : IsNameChar(s[i])

(***************************************************************************)
(* JavaScript values: a type tag and a payload.  The payload of a string   *)
(* is its characters, of a number or boolean its literal, of an array the  *)
(* typeof of each element; objects and functions carry none.               *)
(***************************************************************************)
Undef == [t |-> "undefined", v |-> <<>>]
Str(s) == [t |-> "string", v |-> s]
Num(d) == [t |-> "number", v |-> <<d>>]
Bool(b) == [t |-> "boolean", v |-> IF b THEN <<"t","r","u","e">> ELSE <<"f","a","l","s","e">>]
Arr(types) == [t |-> "array", v |-> types]
Fn == [t |-> "function", v |-> <<>>]
\* ToBoolean: undefined, "", 0 and false are falsy
Truthy(x) == ~ \/ x.t = "undefined"
               \/ (x.t = "string" /\ x.v = <<>>)
               \/ (x.t = "number" /\ x.v = <<"0">>)
               \/ (x.t = "boolean" /\ x.v = Bool(FALSE).v)
\* typeof x === 'string'
IsString(x) == x.t = "string"
\* RegExp.prototype.test(x) converts x with ToString first (strings, numbers
\* and booleans: their payload is their text)
ToStringJS(x) == x.v

\* a property an object does not have (distinct from one whose value is undefined)
Absent == [t |-> "absent", v |-> <<>>]
\* an enumerated string ('project', 'json', ...) is carried as one token
Tok(w) == Str(<<w>>)

(***************************************************************************)
(* Command objects                                                         *)
(***************************************************************************)
MetaKeys == {"scope", "sourceFormat", "sourcePath", "category", "tags",
             "author", "version", "canExecuteShell"}
\* command.metadata undefined: no property at all
NoMetadata == [k \in MetaKeys |-> Absent]
\* { ...a, ...b }: every own property of b replaces a's
Spread(a, b) == [k \in MetaKeys |-> IF b[k] # Absent THEN b[k] ELSE a[k]]
\* an action: its kind and, for the generated ones, the template it closes over
\* (the shell command or the prose text), the args template and the cwd
\* origin is a history field: where the object was read from (the program
\* tells objects apart by identity; two commands of the model with the same
\* origin in one load cycle are the same object)
NoOrigin == [dir |-> 0, key |-> ""]
NoAction == [kind |-> "none", command |-> <<>>, args |-> Undef, cwd |-> Undef]

(***************************************************************************)
(* validateSimpleCommand: the defects of a JSON command configuration      *)
(***************************************************************************)
\* a defect: its message and the property it is about
ErrMissingName == <<"Missing required property", "name">>
ErrNameRule ==
  <<"must start with a letter and contain only letters, numbers, and hyphens", "name">>
ErrAltNameRule ==
  <<"must start with a letter and contain only letters, numbers, and hyphens", "altName">>
ErrMustBeString(field) == <<"must be a string", field>>
ErrTagsArray == <<"must be an array", "tags">>
ErrTagStrings == <<"All tags must be strings", "tags">>

If(cond, e) == IF cond THEN <<e>> ELSE <<>>
\* if (config[f] && typeof config[f] !== 'string') errors.push(...)
StringIfTruthy(config, f) ==
  If(Truthy(config[f]) /\ ~IsString(config[f]), ErrMustBeString(f))
TagErrors(tags) ==
  IF Truthy(tags) /\ tags.t # "array" THEN <<ErrTagsArray>>
  ELSE IF Truthy(tags) /\ (\E i \in DOMAIN tags.v : tags.v[i] # "string")
       THEN <<ErrTagStrings>>
       ELSE <<>>

validateSimpleCommand(config) ==
     (IF ~Truthy(config.name) \/ ~IsString(config.name)
        THEN <<ErrMissingName>>
        ELSE If(~NamePattern(config.name.v), ErrNameRule))
  \o If(Truthy(config.altName) /\ ~NamePattern(ToStringJS(config.altName)),
        ErrAltNameRule)
  \o StringIfTruthy(config, "command")
  \o StringIfTruthy(config, "args")
  \o StringIfTruthy(config, "cwd")
  \o StringIfTruthy(config, "category")
  \o TagErrors(config.tags)
  \o StringIfTruthy(config, "author")
  \o StringIfTruthy(config, "version")

(***************************************************************************)
(* createSimpleCommand: the command of a JSON configuration, or null.      *)
(* A nullable result is a sequence of at most one element.                 *)
(***************************************************************************)
Null == <<>>
Some(x) == <<x>>

createSimpleCommand(config) ==
  IF Len(validateSimpleCommand(config)) > 0 THEN Null
  ELSE Some(
    [name |-> config.name,
     altName |-> config.altName,
     description |-> config.description,
     origin |-> NoOrigin,
     hasMetadata |-> TRUE,
     metadata |->
       [scope |-> Tok("project"),        \* "Will be overridden by caller"
        sourceFormat |-> Tok("json"),
        sourcePath |-> Absent,
        category |-> config.category,
        tags |-> config.tags,
        author |-> config.author,
        version |-> config.version,
        canExecuteShell |-> Bool(Truthy(config.command))],
     action |->
       IF Truthy(config.command)
         THEN [kind |-> "shell",
               command |-> config.command.v,
               \* args = '' is the default of a missing property only
               args |-> IF config.args = Undef THEN Str(<<>>) ELSE config.args,
               cwd |-> config.cwd]
         ELSE NoAction])

(***************************************************************************)
(* validateCommand: the object a module exports.  A candidate has the      *)
(* properties name, altName, description, action, completion, subCommands  *)
(* (subItems: the elements when it is an array) and metadata (metadataVal: *)
(* the value itself, metadata: its properties when it is an object).       *)
(* isNull marks the value null (or undefined) where an object is expected. *)
(***************************************************************************)
Obj == [t |-> "object", v |-> <<>>]
ErrNotString(field) == <<"must be a string", field>>
ErrNotFunction(field) == <<"must be a function", field>>
ErrSubArray == <<"must be an array", "subCommands">>
ErrSubCommand(i) == <<"Invalid sub-command at index", i>>
ErrMetaObject == <<"must be an object", "metadata">>
ErrMetaBoolean == <<"must be a boolean", "canExecuteShell">>

\* a property an object lacks reads as undefined
Get(x) == IF x = Absent THEN Undef ELSE x

MetadataErrors(meta) ==
     If(Truthy(Get(meta.category)) /\ ~IsString(meta.category), ErrNotString("category"))
  \o TagErrors(Get(meta.tags))
  \o If(Truthy(Get(meta.author)) /\ ~IsString(meta.author), ErrNotString("author"))
  \o If(Truthy(Get(meta.version)) /\ ~IsString(meta.version), ErrNotString("version"))
  \o If(Truthy(Get(meta.canExecuteShell)) /\ meta.canExecuteShell.t # "boolean",
        ErrMetaBoolean)

RECURSIVE validateCommandErrors(_)
validateCommandErrors(command) ==
     (IF ~Truthy(command.name) \/ ~IsString(command.name)
        THEN <<ErrMissingName>>
        ELSE If(~NamePattern(command.name.v), ErrNameRule))
  \o If(Truthy(command.description) /\ ~IsString(command.description),
        ErrNotString("description"))
  \o (IF ~Truthy(command.altName) THEN <<>>
      ELSE IF ~IsString(command.altName) THEN <<ErrNotString("altName")>>
      ELSE If(~NamePattern(command.altName.v), ErrAltNameRule))
  \o If(Truthy(command.action) /\ command.action.t # "function",
        ErrNotFunction("action"))
  \o If(Truthy(command.completion) /\ command.completion.t # "function",
        ErrNotFunction("completion"))
  \o (IF ~Truthy(command.subCommands) THEN <<>>
      ELSE IF command.subCommands.t # "array" THEN <<ErrSubArray>>
      ELSE LET sub == command.subItems
               errs[i \in 0..Len(sub)] ==
                 IF i = 0 THEN <<>>
                 ELSE errs[i-1] \o
                      \* the source's index is zero-based
                      If(Len(validateCommandErrors(sub[i])) > 0, ErrSubCommand(i - 1))
           IN errs[Len(sub)])
  \o (IF ~Truthy(command.metadataVal) THEN <<>>
      ELSE IF command.metadataVal.t # "object" THEN <<ErrMetaObject>>
      ELSE MetadataErrors(command.metadata))

\* whether validateCommand throws: reading command.name of null (or
\* undefined) is a TypeError, and validateCommand catches nothing, so the
\* exception of an element of subCommands leaves the calls above it too
RECURSIVE validateCommandThrows(_)
validateCommandThrows(command) ==
  \/ command.isNull
  \/ /\ Truthy(command.subCommands)
     /\ command.subCommands.t = "array"
     /\ \E i \in DOMAIN command.subItems : validateCommandThrows(command.subItems[i])

\* the validated object itself, as a command (when nothing is thrown)
validateCommand(command) ==
  IF Len(validateCommandErrors(command)) > 0 THEN Null
  ELSE Some(
    [name |-> command.name,
     altName |-> command.altName,
     description |-> command.description,
     origin |-> NoOrigin,
     hasMetadata |-> Truthy(command.metadataVal),
     metadata |-> IF Truthy(command.metadataVal) THEN command.metadata ELSE NoMetadata,
     action |-> IF Truthy(command.action)
                  THEN [NoAction EXCEPT !.kind = "module"] ELSE NoAction])

(***************************************************************************)
(* String methods on character sequences                                   *)
(***************************************************************************)
\* s.replace(/[set]/g, '') for the complement of Keep
KeepOnly(s, Keep(_)) == SelectSeq(s, Keep)
\* the first index of s at or after which Stop holds, Len(s)+1 when none
FirstIndex(s, Stop(_)) ==
  IF \E i \in DOMAIN s : Stop(s[i])
    THEN CHOOSE i \in DOMAIN s : Stop(s[i]) /\ \A j \in 1..(i-1) : ~Stop(s[j])
    ELSE Len(s) + 1
LastIndex(s, Stop(_)) ==
  IF \E i \in DOMAIN s : Stop(s[i])
    THEN CHOOSE i \in DOMAIN s : Stop(s[i]) /\ \A j \in (i+1)..Len(s) : ~Stop(s[j])
    ELSE 0
\* String.prototype.trim (a line feed is white space too)
IsSpace(c) == c \in WhiteSpace \/ c = "\n"
NotSpace(c) == ~IsSpace(c)
Trim(s) == SubSeq(s, FirstIndex(s, NotSpace), LastIndex(s, NotSpace))
\* s.replace(/[In]+/g, rep): every maximal run of characters of In becomes rep
ReplaceRuns(s, In(_), rep) ==
  LET out[i \in 0..Len(s)] ==
        IF i = 0 THEN <<>>
        ELSE IF ~In(s[i]) THEN Append(out[i-1], s[i])
        ELSE IF i > 1 /\ In(s[i-1]) THEN out[i-1]
        ELSE Append(out[i-1], rep)
  IN out[Len(s)]
StartsWith(s, prefix) ==
  Len(s) >= Len(prefix) /\ SubSeq(s, 1, Len(prefix)) = prefix
\* s.substring(n): from the zero-based index n
Substring(s, n) == SubSeq(s, n + 1, Len(s))

(***************************************************************************)
(* sanitizeCommandName                                                     *)
(***************************************************************************)
MaxNameLength == 50
IsAscii(c) == c \notin NonAscii
IsSanitizeChar(c) == IsLetter(c) \/ c \in Digits \/ IsSpace(c) \/ c = "-"
IsHyphen(c) == c = "-"
NotHyphen(c) == c # "-"

\* sanitizeCommandName without name.toLowerCase()
sanitizeCommandName_NoLowerCase(name) ==
  LET ascii == KeepOnly(name, IsAscii)
  IN IF Len(Trim(ascii)) = 0 THEN <<>>
     ELSE LET plain == KeepOnly(ascii, IsSanitizeChar)
              hyphened == ReplaceRuns(plain, IsSpace, "-")
              lettered == Substring(hyphened, FirstIndex(hyphened, IsLetter) - 1)
              collapsed == ReplaceRuns(lettered, IsHyphen, "-")
              stripped == SubSeq(collapsed, FirstIndex(collapsed, NotHyphen),
                                 LastIndex(collapsed, NotHyphen))
          IN SubSeq(stripped, 1, IF Len(stripped) < MaxNameLength
                                   THEN Len(stripped) ELSE MaxNameLength)

\* sanitizeCommandName without .replace(/^[^a-zA-Z]+/, '')
sanitizeCommandName_KeepLeading(name) ==
  LET ascii == KeepOnly(name, IsAscii)
  IN IF Len(Trim(ascii)) = 0 THEN <<>>
     ELSE LET lowered == ToLowerCase(ascii)
              plain == KeepOnly(lowered, IsSanitizeChar)
              hyphened == ReplaceRuns(plain, IsSpace, "-")
              collapsed == ReplaceRuns(hyphened, IsHyphen, "-")
              stripped == SubSeq(collapsed, FirstIndex(collapsed, NotHyphen),
                                 LastIndex(collapsed, NotHyphen))
          IN SubSeq(stripped, 1, IF Len(stripped) < MaxNameLength
                                   THEN Len(stripped) ELSE MaxNameLength)

sanitizeCommandName(name) ==
  LET ascii == KeepOnly(name, IsAscii)
  IN IF Len(Trim(ascii)) = 0 THEN <<>>
     ELSE LET lowered == ToLowerCase(ascii)
              plain == KeepOnly(lowered, IsSanitizeChar)           \* /[^a-zA-Z0-9\s-]/g
              hyphened == ReplaceRuns(plain, IsSpace, "-")          \* /\s+/g
              lettered == Substring(hyphened,
                                    FirstIndex(hyphened, IsLetter) - 1) \* /^[^a-zA-Z]+/
              collapsed == ReplaceRuns(lettered, IsHyphen, "-")     \* /-+/g
              stripped == SubSeq(collapsed, FirstIndex(collapsed, NotHyphen),
                                 LastIndex(collapsed, NotHyphen))   \* /^-+|-+$/g
          IN SubSeq(stripped, 1, IF Len(stripped) < MaxNameLength
                                   THEN Len(stripped) ELSE MaxNameLength)

(***************************************************************************)
(* loadMarkdownCommand: the parse of a prose file.  The file's content is  *)
(* the sequence of its lines (content.split('\n')).                        *)
(***************************************************************************)
\* the grave accent, which a TLA+ string cannot hold, as a token
BackTick == "GRAVE"
Fence == <<BackTick, BackTick, BackTick>>
FenceBash == Fence \o <<"b","a","s","h">>
FenceSh == Fence \o <<"s","h">>
FenceShell == Fence \o <<"s","h","e","l","l">>
H1 == <<"#"," ">>
H2 == <<"#","#"," ">>
Hash == <<"#">>

\* the title: the text of the first line whose trimmed form starts with '# '
MarkdownTitle(lines) ==
  LET IsH1(l) == StartsWith(Trim(l), H1)
      i == FirstIndex(lines, IsH1)
  IN IF i > Len(lines) THEN <<>> ELSE Trim(Substring(Trim(lines[i]), 2))

\* one iteration of the scan for a shell block and a description
MarkdownScanLine(st, line) ==
  LET trimmed == Trim(line)
      withDescription(s) ==
        IF s.description = <<>> /\ StartsWith(trimmed, H2)
          THEN [s EXCEPT !.description = Trim(Substring(trimmed, 3))]
        ELSE IF /\ s.description = <<>>
                /\ Len(trimmed) > 0
                /\ ~StartsWith(trimmed, Hash)
                /\ ~StartsWith(trimmed, Fence)
          THEN [s EXCEPT !.description = trimmed]
        ELSE s
  IN IF st.done THEN st
     ELSE IF \/ StartsWith(trimmed, FenceBash)
             \/ StartsWith(trimmed, FenceSh)
             \/ StartsWith(trimmed, FenceShell)
       THEN [st EXCEPT !.inCodeBlock = TRUE]                          \* continue
     ELSE IF trimmed = Fence /\ st.inCodeBlock
       THEN IF Len(Trim(st.codeBlockContent)) > 0
              THEN [st EXCEPT !.shellCommand = Trim(st.codeBlockContent),
                              !.done = TRUE]                          \* break
              ELSE [st EXCEPT !.inCodeBlock = FALSE,
                              !.codeBlockContent = <<>>]              \* continue
     ELSE withDescription(
            IF st.inCodeBlock
              THEN [st EXCEPT !.codeBlockContent = @ \o line \o <<"\n">>]
              ELSE st)

MarkdownScan(lines) ==
  LET st[i \in 0..Len(lines)] ==
        IF i = 0
          THEN [inCodeBlock |-> FALSE, codeBlockContent |-> <<>>,
                description |-> <<>>, shellCommand |-> <<>>, done |-> FALSE]
          ELSE MarkdownScanLine(st[i-1], lines[i])
  IN st[Len(lines)]

\* content.trim() of the whole file: its lines joined by line feeds again
JoinLines(lines) ==
  LET out[i \in 0..Len(lines)] ==
        IF i = 0 THEN <<>>
        ELSE IF i = 1 THEN lines[1]
        ELSE out[i-1] \o <<"\n">> \o lines[i]
  IN out[Len(lines)]

CommandFrom == <<"C","o","m","m","a","n","d"," ","f","r","o","m"," ">>

\* the name without the fallback to the file's base name
MarkdownCommandName_NoFallback(title, filename) == sanitizeCommandName(title)

\* the name of the command: the sanitized title or, when that is empty, the
\* sanitized base name of the file
MarkdownCommandName(title, filename) ==
  IF sanitizeCommandName(title) # <<>> THEN sanitizeCommandName(title)
  ELSE sanitizeCommandName(filename)

\* filename: the file's base name without its extension
loadMarkdownCommand(lines, filename) ==
  LET title == MarkdownTitle(lines)
      scan == MarkdownScan(lines)
      commandName == MarkdownCommandName(title, filename)
  IN IF commandName = <<>> THEN Null
     ELSE Some(
       [name |-> Str(commandName),
        altName |-> Undef,
        description |-> Str(IF scan.description # <<>> THEN scan.description
                            ELSE IF title # <<>> THEN title
                            ELSE CommandFrom \o filename),
        origin |-> NoOrigin,
        hasMetadata |-> TRUE,
        metadata |->
          [NoMetadata EXCEPT
             !.scope = Tok("personal"),      \* "Will be overridden by caller"
             !.sourceFormat = Tok("markdown"),
             !.category = Tok("markdown"),
             !.tags = Arr(<<"string", "string">>),
             !.canExecuteShell = IF scan.shellCommand # <<>>
                                   THEN Bool(TRUE) ELSE Absent],
        action |->
          IF scan.shellCommand # <<>>
            THEN [kind |-> "shell-all", command |-> scan.shellCommand,
                  args |-> Undef, cwd |-> Undef]
            ELSE [kind |-> "ai-prompt", command |-> Trim(JoinLines(lines)),
                  args |-> Undef, cwd |-> Undef]])

(***************************************************************************)
(* The other parsers and the dispatch by extension                         *)
(***************************************************************************)
\* getSourceFormat: the format of a (lower-cased) extension, "" for none
getSourceFormat(ext) ==
  CASE ext \in {".ts", ".js"} -> "typescript"
    [] ext = ".json" -> "json"
    [] ext \in {".yaml", ".yml"} -> "yaml"
    [] ext \in {".md", ".markdown"} -> "markdown"
    [] OTHER -> ""

\* String.prototype.toLowerCase on the extensions of the model
ExtLower(ext) ==
  CASE ext = ".JSON" -> ".json"
    [] ext = ".MD" -> ".md"
    [] OTHER -> ext

\* the text of a JSON file: malformed (JSON.parse throws a SyntaxError), the
\* literal null (reading null.name throws a TypeError) or an object; both
\* exceptions are caught inside loadJsonCommand
loadJsonCommand(text) ==
  IF text.kind # "object" THEN Null ELSE createSimpleCommand(text.config)

\* no YAML parser is wired: a warning and null, whatever the file holds
loadYamlCommand(filePath) == Null

\* a module: whether import() resolves, and its exports default and command
\* (each the value and, when it is an object, the candidate)
loadTypeScriptCommand(module) ==
  IF ~module.importOK THEN Null
  ELSE LET exported == IF Truthy(module.defaultVal)
                         THEN [val |-> module.defaultVal, obj |-> module.defaultObj]
                         ELSE [val |-> module.commandVal, obj |-> module.commandObj]
       IN IF ~Truthy(exported.val) \/ exported.val.t # "object" THEN Null
          ELSE IF validateCommandThrows(exported.obj) THEN Null      \* catch
          ELSE validateCommand(exported.obj)

(***************************************************************************)
(* The generated actions, invoked with the user's arguments                *)
(***************************************************************************)
\* the zero-based index of the first occurrence of pat in s at or after the
\* zero-based index from, -1 when there is none (String.prototype.indexOf)
IndexOf(s, pat, from) ==
  LET At(i) == i + Len(pat) <= Len(s) /\ SubSeq(s, i + 1, i + Len(pat)) = pat
  IN IF \E i \in from..Len(s) : At(i)
       THEN CHOOSE i \in from..Len(s) : At(i) /\ \A j \in from..(i-1) : ~At(j)
       ELSE -1

\* GetSubstitution for a pattern without capture groups: in the replacement
\* text $$ is a dollar sign, $& the matched text, $ followed by a grave accent
\* the text before the match and $' the text after it; any other $ is kept
GetSubstitution(replacement, matched, before, after) ==
  LET out[i \in 0..Len(replacement)] ==
        \* out[i]: the text for the first i characters, and whether the i-th
        \* character was consumed as the second character of a $ pattern
        IF i = 0 THEN [text |-> <<>>, used |-> FALSE]
        ELSE LET c == replacement[i]
                 prev == out[i-1]
                 escape == i > 1 /\ replacement[i-1] = "$" /\ ~prev.used
             IN IF escape /\ c = "$"
                  THEN [text |-> prev.text, used |-> TRUE]
                ELSE IF escape /\ c = "&"
                  THEN [text |-> SubSeq(prev.text, 1, Len(prev.text) - 1) \o matched,
                        used |-> TRUE]
                ELSE IF escape /\ c = BackTick
                  THEN [text |-> SubSeq(prev.text, 1, Len(prev.text) - 1) \o before,
                        used |-> TRUE]
                ELSE IF escape /\ c = "'"
                  THEN [text |-> SubSeq(prev.text, 1, Len(prev.text) - 1) \o after,
                        used |-> TRUE]
                ELSE [text |-> Append(prev.text, c), used |-> FALSE]
  IN out[Len(replacement)].text

\* s.replace(pat, replacement) with a string pattern: the first occurrence only
ReplaceFirst(s, pat, replacement) ==
  LET i == IndexOf(s, pat, 0)
  IN IF i < 0 THEN s
     ELSE LET before == SubSeq(s, 1, i)
              after == SubSeq(s, i + Len(pat) + 1, Len(s))
          IN before \o GetSubstitution(replacement, pat, before, after) \o after

\* s.replace(/pat/g, replacement) for a literal pattern: every occurrence,
\* left to right; the replaced text is not searched again
RECURSIVE ReplaceFrom(_, _, _, _)
ReplaceFrom(s, pat, replacement, from) ==
  LET i == IndexOf(s, pat, from)
  IN IF i < 0 THEN SubSeq(s, from + 1, Len(s))
     ELSE SubSeq(s, from + 1, i)
          \o GetSubstitution(replacement, pat, SubSeq(s, 1, i),
                             SubSeq(s, i + Len(pat) + 1, Len(s)))
          \o ReplaceFrom(s, pat, replacement, i + Len(pat))
ReplaceAll(s, pat, replacement) == ReplaceFrom(s, pat, replacement, 0)

ArgsPlaceholder == <<"{","{","a","r","g","s","}","}">>
\* what an action returns
ToolRequest(command, cwd) ==
  [type |-> "tool", toolName |-> "run_shell_command", command |-> command,
   cwd |-> cwd, content |-> <<>>]
AiPrompt(content) ==
  [type |-> "ai-prompt", toolName |-> "", command |-> <<>>, cwd |-> Undef,
   content |-> content]
\* the project root the caller's context gives, and process.cwd()
ProjectRoot == Tok("root")
ProcessCwd == Tok("cwd")
\* what context.services.config?.getProjectRoot() gives: a path, the empty
\* string, or undefined when the context has no config
ProjectRoots == { ProjectRoot, Str(<<>>), Undef }
\* the choice without the project root
WorkingDirectory_NoProjectRoot(cwd, projectRoot) ==
  IF Truthy(cwd) THEN cwd ELSE ProcessCwd
\* cwd || context.services.config?.getProjectRoot() || process.cwd()
WorkingDirectory(cwd, projectRoot) ==
  IF Truthy(cwd) THEN cwd
  ELSE IF Truthy(projectRoot) THEN projectRoot
  ELSE ProcessCwd

\* the catch of an action: an error message
ErrorMessage ==
  [type |-> "message", toolName |-> "", command |-> <<>>, cwd |-> Undef,
   content |-> <<>>]

\* the action createSimpleCommand generates; args.replace throws a TypeError,
\* which the action catches, when args is not a string
SimpleAction(action, userArgs, projectRoot) ==
  IF ~IsString(action.args) THEN ErrorMessage
  ELSE LET finalArgs == ReplaceFirst(action.args.v, ArgsPlaceholder, userArgs)
       IN ToolRequest(Trim(action.command \o <<" ">> \o finalArgs),
                      WorkingDirectory(action.cwd, projectRoot))
\* the two actions loadMarkdownCommand generates
MarkdownShellAction(action, args, projectRoot) ==
  ToolRequest(ReplaceAll(action.command, ArgsPlaceholder, args),
              WorkingDirectory(Undef, projectRoot))
MarkdownPromptAction(action, args) ==
  AiPrompt(IF Len(Trim(args)) > 0
             THEN action.command \o <<"\n", "\n">> \o Trim(args)
             ELSE action.command)
\* action(context, args) of a command the loader built; projectRoot is what
\* the context gives for the project root
InvokeAction(action, args, projectRoot) ==
  CASE action.kind = "shell" -> SimpleAction(action, args, projectRoot)
    [] action.kind = "shell-all" -> MarkdownShellAction(action, args, projectRoot)
    [] action.kind = "ai-prompt" -> MarkdownPromptAction(action, args)

(***************************************************************************)
(* Files.  A directory holds entries; an entry is a key of the table       *)
(* below, which gives the file's name (base and extension) and its text in *)
(* the form its parser reads.                                              *)
(***************************************************************************)
help == <<"h","e","l","p">>
build == <<"b","u","i","l","d">>
b == <<"b">>
doc == <<"d","o","c">>

Config(name, altName, command, args) ==
  [name |-> name, altName |-> altName, description |-> Undef,
   category |-> Undef, tags |-> Undef, author |-> Undef, version |-> Undef,
   command |-> command, args |-> args, cwd |-> Undef]
JsonObject(config) == [kind |-> "object", config |-> config]
Candidate(name, altName, metadataVal, metadata) ==
  [isNull |-> FALSE, name |-> name, altName |-> altName, description |-> Undef,
   action |-> Fn, completion |-> Undef, subCommands |-> Undef, subItems |-> <<>>,
   metadataVal |-> metadataVal, metadata |-> metadata]
Module(importOK, defaultVal, defaultObj) ==
  [importOK |-> importOK, defaultVal |-> defaultVal, defaultObj |-> defaultObj,
   commandVal |-> Undef, commandObj |-> defaultObj]

Entry(k) ==
  CASE k = "help.json" ->
         [base |-> help, ext |-> ".json",
          text |-> JsonObject(Config(Str(help), Undef, Undef, Undef))]
    [] k = "build.json" ->
         [base |-> build, ext |-> ".json",
          text |-> JsonObject(Config(Str(build), Str(b),
                                     Str(<<"e","c","h","o">>), Str(ArgsPlaceholder)))]
    [] k = "build.json#2" ->      \* the same file with another text
         [base |-> build, ext |-> ".json",
          text |-> JsonObject(Config(Str(build), Undef, Undef, Undef))]
    [] k = "b.json" ->
         [base |-> b, ext |-> ".json",
          text |-> JsonObject(Config(Str(b), Str(help), Undef, Undef))]
    [] k = "broken.json" ->
         [base |-> <<"x">>, ext |-> ".json",
          text |-> [kind |-> "malformed", config |-> Config(Undef, Undef, Undef, Undef)]]
    [] k = "null.json" ->
         [base |-> <<"n">>, ext |-> ".json",
          text |-> [kind |-> "null", config |-> Config(Undef, Undef, Undef, Undef)]]
    [] k = "1x.json" ->
         [base |-> <<"1","x">>, ext |-> ".json",
          text |-> JsonObject(Config(Str(<<"1","x">>), Undef, Undef, Undef))]
    [] k = "build.md" ->
         [base |-> build, ext |-> ".md",
          text |-> << <<"#"," ","B","u","i","l","d">>,
                      Fence \o <<"b","a","s","h">>,
                      <<"n","p","m">>,
                      Fence >>]
    [] k = "doc.md" ->            \* a title that sanitizes to nothing
         [base |-> doc, ext |-> ".md",
          text |-> << <<"#"," ","U+6A21","U+5757">>, <<"t","e","x","t">> >>]
    [] k = "tool.ts" ->           \* a module whose metadata names its own scope
         [base |-> <<"t","o","o","l">>, ext |-> ".ts",
          text |-> Module(TRUE, Obj,
                     Candidate(Str(help), Str(build), Obj,
                       [NoMetadata EXCEPT !.scope = Tok("builtin"),
                                          !.sourceFormat = Tok("json"),
                                          !.sourcePath = Tok("elsewhere")]))]
    [] k = "plain.js" ->          \* a module without metadata
         [base |-> <<"p">>, ext |-> ".js",
          text |-> Module(TRUE, Obj, Candidate(Str(b), Undef, Undef, NoMetadata))]
    [] k = "throws.ts" ->         \* import() rejects
         [base |-> <<"t">>, ext |-> ".ts",
          text |-> Module(FALSE, Undef, Candidate(Undef, Undef, Undef, NoMetadata))]
    [] k = "conf.yaml" ->         \* name: c, command: echo (never read)
         [base |-> <<"c">>, ext |-> ".yaml",
          text |-> JsonObject(Config(Str(<<"c">>), Undef,
                                     Str(<<"e","c","h","o">>), Undef))]
    [] k = "notes.txt" ->
         [base |-> <<"n">>, ext |-> ".txt", text |-> <<>>]

Keys == {"help.json", "build.json", "build.json#2", "b.json", "broken.json",
         "null.json", "1x.json", "build.md", "doc.md", "tool.ts", "plain.js",
         "throws.ts", "conf.yaml", "notes.txt"}
\* the entries the loading specification starts from
LoadKeys == Keys \ {"build.json#2", "null.json", "plain.js", "doc.md", "notes.txt"}
NoFile == "-"
FileName(k) == <<Entry(k).base, Entry(k).ext>>

(***************************************************************************)
(* setupDirectories: project first, personal second                        *)
(***************************************************************************)
directories ==
  << [path |-> "<projectRoot>/.gemini/commands", scope |-> "project", enabled |-> TRUE],
     [path |-> "<home>/.gemini/commands", scope |-> "personal", enabled |-> TRUE] >>
Dirs == DOMAIN directories
\* path.join(dirPath, entry.name)
FilePath(d, name) == <<directories[d].path, "/">> \o name[1] \o <<name[2]>>

(***************************************************************************)
(* Map<string, SlashCommand>: the entries in insertion order               *)
(***************************************************************************)
MapHas(m, k) == \E i \in DOMAIN m : m[i].key = k
MapSet(m, k, v) ==
  IF MapHas(m, k)
    THEN [i \in DOMAIN m |-> IF m[i].key = k THEN [key |-> k, val |-> v] ELSE m[i]]
    ELSE Append(m, [key |-> k, val |-> v])
MapGet(m, k) == m[CHOOSE i \in DOMAIN m : m[i].key = k].val
MapValues(m) == [i \in DOMAIN m |-> m[i].val]
MapKeys(m) == {m[i].key : i \in DOMAIN m}
\* map.set(command.name, command); if (command.altName) map.set(command.altName, command)
Register(m, command) ==
  LET m1 == MapSet(m, command.name, command)
  IN IF Truthy(command.altName) THEN MapSet(m1, command.altName, command) ELSE m1

(***************************************************************************)
(* loadCommandFromFile.  io is the outcome of reading the file (readFile,  *)
(* import): whether it succeeded and the entry read.  The result says      *)
(* whether an exception left the function, and the command or null.        *)
(***************************************************************************)
Returned(command) == [threw |-> FALSE, command |-> command]
Thrown == [threw |-> TRUE, command |-> Null]

\* the parser of a format on the outcome of the read; each parser catches
\* every exception of its body (a failed read included) and returns null
Parse(sourceFormat, name, io) ==
  IF ~io.ok /\ sourceFormat # "yaml" THEN Null
  ELSE CASE sourceFormat = "typescript" -> loadTypeScriptCommand(Entry(io.key).text)
         [] sourceFormat = "json" -> loadJsonCommand(Entry(io.key).text)
         [] sourceFormat = "yaml" -> loadYamlCommand(name)
         [] sourceFormat = "markdown" -> loadMarkdownCommand(Entry(io.key).text, name[1])

\* command.metadata = { scope, sourceFormat, sourcePath: filePath, ...command.metadata }
StampMetadata(command, scope, sourceFormat, filePath) ==
  [command EXCEPT
     !.hasMetadata = TRUE,
     !.metadata = Spread([NoMetadata EXCEPT !.scope = Tok(scope),
                                            !.sourceFormat = Tok(sourceFormat),
                                            !.sourcePath = Str(filePath)],
                         command.metadata)]

\* a loader that lets the failure of a file leave as an exception, which ends
\* the walk of the directory
loadCommandFromFile_Rethrow(d, name, io) ==
  LET sourceFormat == getSourceFormat(ExtLower(name[2]))
  IN IF sourceFormat = "" THEN Returned(Null)
     ELSE LET parsed == Parse(sourceFormat, name, io)
          IN IF parsed = Null THEN Thrown
             ELSE Returned(Some(
                    [StampMetadata(parsed[1], directories[d].scope, sourceFormat,
                                   FilePath(d, name))
                       EXCEPT !.origin = [dir |-> d, key |-> io.key]]))

\* d: the directory's index, name: the entry's name.  origin (the directory
\* and the entry the command was read from) is a history field; the program
\* does not have it
loadCommandFromFile(d, name, io) ==
  LET sourceFormat == getSourceFormat(ExtLower(name[2]))
  IN IF sourceFormat = "" THEN Returned(Null)
     ELSE LET parsed == Parse(sourceFormat, name, io)
          IN IF parsed = Null THEN Returned(Null)
             ELSE Returned(Some(
                    [StampMetadata(parsed[1], directories[d].scope, sourceFormat,
                                   FilePath(d, name))
                       EXCEPT !.origin = [dir |-> d, key |-> io.key]]))

(***************************************************************************)
(* State                                                                   *)
(***************************************************************************)
VARIABLES
  fs,            \* the entries of each directory: [Dirs -> [Slots -> key or NoFile]]
  dirExists,     \* whether each command directory exists
  commands,      \* CustomCommandLoader.commands
  loads,         \* the calls of loadCustomCommands in flight
  svcCommands,   \* CommandService.commands
  watchers,      \* CustomCommandLoader.watchers: the FSWatcher handles held
  isWatching,    \* CustomCommandLoader.isWatching
  reloadTimer,   \* CustomCommandLoader.reloadTimer: a timer id, 0 for null
  starts,        \* the calls of startWatching in flight
  open,          \* the FSWatcher handles that are open: id -> directory
  timers,        \* the timers that are pending: id -> due time
  now,           \* the clock
  hist,          \* history of the run, read by the properties only
  call           \* one call of a parser on one file, and of the action it built

vars == <<fs, dirExists, commands, loads, svcCommands, watchers, isWatching,
          reloadTimer, starts, open, timers, now, hist, call>>
\* the loader's own state, which a call of a parser does not touch
loaderVars == <<fs, dirExists, commands, loads, svcCommands, watchers, isWatching,
                reloadTimer, starts, open, timers, now, hist>>
\* no call of a parser
NoCall == [fn |-> "none"]

Slots == 1..2
LoadIds == 1..2
StartIds == 1..2
\* a call of startWatching: the directory whose directoryExists it awaits
NotStarting == [pc |-> "idle", dir |-> 0]
\* a call of loadCustomCommands: where it is suspended (pc), its caller, the
\* directory and the entry it is at, the commands of the directory so far and
\* loadedCommands; the rest is history (the map when the call began, whether a
\* directory could not be read, what was listed and what was read, and the
\* maps a consumer could read at the call's suspensions)
Idle == [pc |-> "idle", caller |-> "", dir |-> 0, entries |-> <<>>, pos |-> 0,
         cmds |-> <<>>, loadedCommands |-> <<>>,
         before |-> <<>>, failed |-> FALSE, listed |-> {}, reads |-> {},
         seen |-> {}]

(***************************************************************************)
(* The built-in commands (the commandLoader handed to CommandService)      *)
(***************************************************************************)
BuiltIn(name, altName, key) ==
  [name |-> Str(name), altName |-> altName, description |-> Undef,
   origin |-> [dir |-> 0, key |-> key],
   hasMetadata |-> FALSE, metadata |-> NoMetadata,
   action |-> [NoAction EXCEPT !.kind = "module"]]
loadBuiltInCommands ==
  << BuiltIn(<<"c","l","e","a","r">>, Undef, "clearCommand"),
     BuiltIn(help, Undef, "helpCommand"),
     BuiltIn(<<"m","e","m","o","r","y">>, Undef, "memoryCommand"),
     BuiltIn(<<"t","h","e","m","e">>, Undef, "themeCommand") >>

(***************************************************************************)
(* loadCustomCommands and loadCommandsFromDirectory, between suspensions   *)
(***************************************************************************)
\* the entry named name in directory d now, NoFile when there is none
KeyAt(d, name) ==
  IF \E i \in Slots : fs[d][i] # NoFile /\ FileName(fs[d][i]) = name
    THEN fs[d][CHOOSE i \in Slots : fs[d][i] # NoFile /\ FileName(fs[d][i]) = name]
    ELSE NoFile
\* fs.readdir: the names of the entries, in the directory's order
Listing(d) ==
  LET out[i \in 0..Cardinality(Slots)] ==
        IF i = 0 THEN <<>>
        ELSE IF fs[d][i] = NoFile THEN out[i-1]
        ELSE Append(out[i-1], FileName(fs[d][i]))
  IN out[Cardinality(Slots)]
\* an entry whose load waits for I/O (readFile, import)
Suspends(name) ==
  getSourceFormat(ExtLower(name[2])) \in {"typescript", "json", "markdown"}

\* the end of loadCommandsFromDirectory and the next turn of the loop of
\* loadCustomCommands: up to the stat of the next directory, or to the return
FinishDir(p) ==
  LET loaded == p.loadedCommands \o p.cmds
  IN IF p.dir < Len(directories)
       THEN [p EXCEPT !.pc = "stat", !.dir = @ + 1, !.entries = <<>>, !.pos = 0,
                      !.cmds = <<>>, !.loadedCommands = loaded]
       ELSE [p EXCEPT !.pc = "return", !.entries = <<>>, !.pos = 0,
                      !.cmds = <<>>, !.loadedCommands = loaded]
\* the loop over the entries from position pos: the entries that need no I/O
\* (unsupported extension, YAML) yield null at once
Continue(p, pos) ==
  LET IsNext(i) == i >= pos /\ Suspends(p.entries[i])
  IN IF \E i \in DOMAIN p.entries : IsNext(i)
       THEN [p EXCEPT !.pc = "file",
                      !.pos = CHOOSE i \in DOMAIN p.entries :
                                IsNext(i) /\ \A j \in pos..(i-1) : ~IsNext(j)]
       ELSE FinishDir(p)

(***************************************************************************)
(* CommandService.loadCommands: the merge of built-in and custom commands  *)
(***************************************************************************)
RECURSIVE RegisterAll(_, _)
RegisterAll(m, cmds) ==
  IF cmds = <<>> THEN m ELSE RegisterAll(Register(m, Head(cmds)), Tail(cmds))
\* a merge in the other order: the custom commands first, the built-in last
commandMap_BuiltInsLast(customCommands) ==
  RegisterAll(RegisterAll(<<>>, customCommands), loadBuiltInCommands)
commandMap(customCommands) ==
  RegisterAll(RegisterAll(<<>>, loadBuiltInCommands), customCommands)

(***************************************************************************)
(* Actions: a load cycle, one step per completed I/O                       *)
(***************************************************************************)
NoService == [done |-> FALSE, customCommands |-> <<>>, map |-> <<>>,
              listed |-> {}, reads |-> {}, failed |-> FALSE]
NoReload == [done |-> FALSE, failed |-> FALSE, before |-> <<>>, after |-> <<>>,
             seen |-> {},
             loadedCommands |-> <<>>, service |-> <<>>, serviceDone |-> FALSE]

\* history: the last load of the service and the last reload that returned;
\* the calls made; the time of the last call of scheduleReload (-1: none), the
\* number (up to 2) of calls each less than the delay after the one before, the
\* reloads begun since (firedSince) and the time of the last (lastFire);
\* whether a reload began between two calls of scheduleReload less than the
\* delay apart (midBurst); whether stopWatching has cleared the timer since
\* the last call (cancelled); whether stopWatching has returned and
\* startWatching was not called since (stopped), and whether a reload began
\* in that time (firedAfterStop); the changes made to the directories;
\* whether dispose has been called (disposed); the load cycles (cycles)
NoHistory ==
  [service |-> NoService, reload |-> NoReload, serviceLoads |-> [l \in LoadIds |-> 0],
   lastNotify |-> -1, burstLength |-> 0, firedSince |-> 0, lastFire |-> -1, midBurst |-> FALSE,
   cancelled |-> FALSE, stopped |-> FALSE, firedAfterStop |-> FALSE,
   fsOps |-> 0, startCalls |-> [s \in StartIds |-> 0],
   disposed |-> FALSE,
   cycles |-> [last |-> 0, overlapped |-> FALSE, failed |-> FALSE,
               loaded |-> [l \in LoadIds |-> <<>>]]]

\* history of the load cycles: the cycle begun last and whether a cycle began
\* while another was suspended; and, of the cycles that return after that,
\* whether one could not read a directory and the commands each returned
BeginCycle(l) ==
  [hist.cycles EXCEPT
     !.last = l,
     !.overlapped = (@ \/ \E m \in LoadIds \ {l} : loads[m].pc # "idle")]
EndCycle(l, p) ==
  IF hist.cycles.overlapped
  THEN [hist.cycles EXCEPT
          !.failed = (@ \/ p.failed),
          !.loaded[l] = p.loadedCommands]
  ELSE hist.cycles

\* the return of loadCustomCommands to its caller: CommandService.loadCommands
\* merges and stores the result, the reload timer's callback only logs
Return(l, p, map) ==
  /\ commands' = map
  /\ loads' = [loads EXCEPT ![l] = Idle]
  /\ IF p.caller = "service"
       THEN /\ svcCommands' = MapValues(commandMap(p.loadedCommands))
            /\ hist' = [hist EXCEPT !.service =
                          [done |-> TRUE, customCommands |-> p.loadedCommands,
                           map |-> commandMap(p.loadedCommands),
                           listed |-> p.listed, reads |-> p.reads,
                           failed |-> p.failed],
                          !.cycles = EndCycle(l, p)]
       ELSE /\ svcCommands' = svcCommands
            /\ hist' = [hist EXCEPT !.reload =
                          [done |-> TRUE, failed |-> p.failed, before |-> p.before, after |-> map,
                           seen |-> p.seen,
                           loadedCommands |-> p.loadedCommands,
                           service |-> svcCommands,
                           serviceDone |-> hist.service.done],
                          !.cycles = EndCycle(l, p)]

Resume(l, p, map) ==
  IF p.pc = "return" THEN Return(l, p, map)
  ELSE /\ commands' = map
       /\ loads' = [loads EXCEPT ![l] = [p EXCEPT !.seen = @ \cup {map}]]
       /\ UNCHANGED <<svcCommands, hist>>

\* loadCustomCommands is called: the map is cleared, then the first directory's
\* stat is awaited
BeginLoad(l, caller) ==
  /\ loads[l].pc = "idle"
  /\ commands' = <<>>
  /\ loads' = [loads EXCEPT ![l] =
                 [Idle EXCEPT !.pc = "stat", !.caller = caller, !.dir = 1,
                              !.before = commands, !.seen = {<<>>}]]

\* CommandService.loadCommands (and reloadCommands, which only calls it)
MaxServiceLoads == 1
loadCommands(l) ==
  /\ hist.serviceLoads[l] < MaxServiceLoads
  /\ BeginLoad(l, "service")
  /\ hist' = [hist EXCEPT !.serviceLoads[l] = @ + 1, !.cycles = BeginCycle(l)]
  /\ UNCHANGED <<call, fs, dirExists, svcCommands, watchers, isWatching, reloadTimer,
                 starts, open, timers, now>>

\* directoryExists settles
LoadStat(l) ==
  LET p == loads[l]
  IN /\ p.pc = "stat"
     /\ Resume(l, IF dirExists[p.dir] THEN [p EXCEPT !.pc = "readdir"]
                  ELSE FinishDir(p), commands)
     /\ UNCHANGED <<call, fs, dirExists, watchers, isWatching, reloadTimer, starts,
                    open, timers, now>>

\* fs.readdir settles: with the entries, or with an error (caught and logged
\* by loadCommandsFromDirectory, which returns no command)
LoadReaddir(l) ==
  LET p == loads[l]
  IN /\ p.pc = "readdir"
     /\ \E ok \in BOOLEAN :
          IF ok
            THEN LET names == Listing(p.dir)
                 IN Resume(l, Continue([p EXCEPT
                                 !.entries = names,
                                 !.listed = @ \cup {<<p.dir, names[i]>> : i \in DOMAIN names}],
                               1), commands)
            ELSE Resume(l, FinishDir([p EXCEPT !.failed = TRUE]), commands)
     /\ UNCHANGED <<call, fs, dirExists, watchers, isWatching, reloadTimer, starts,
                    open, timers, now>>

\* the loop's body after loadCommandFromFile gave r: the command, if any, is
\* pushed and set in the map, and the loop goes on to the next entry; an
\* exception ends the directory's walk
AfterFile(l, q, r) ==
  IF r.threw
    THEN Resume(l, FinishDir(q), commands)
    ELSE IF r.command = Null
      THEN Resume(l, Continue(q, q.pos + 1), commands)
      ELSE Resume(l, Continue([q EXCEPT !.cmds = Append(@, r.command[1])],
                              q.pos + 1),
                  Register(commands, r.command[1]))
\* the read of the current entry settles (readFile, import)
LoadFile(l) ==
  LET p == loads[l]
      name == p.entries[p.pos]
      key == KeyAt(p.dir, name)
  IN /\ p.pc = "file"
     /\ AfterFile(l, [p EXCEPT !.reads = @ \cup {<<p.dir, name, key>>}],
                  loadCommandFromFile(p.dir, name, [ok |-> key # NoFile, key |-> key]))
     /\ UNCHANGED <<call, fs, dirExists, watchers, isWatching, reloadTimer, starts,
                    open, timers, now>>

(***************************************************************************)
(* The watcher and the debounce timer                                      *)
(***************************************************************************)
DebounceDelay == 500

\* a scheduleReload without clearTimeout: every call's timer stays pending
scheduleReload_NoClear(tm, rt, time) ==
  [timers |-> tm \cup {time + DebounceDelay},
   reloadTimer |-> time + DebounceDelay]

\* scheduleReload: clearTimeout of the timer held, if any, and a new timer.
\* A timer is known by its due time; tm is the set of pending timers, rt the
\* timer held (0: null), time the clock
scheduleReload(tm, rt, time) ==
  [timers |-> (IF rt # 0 THEN tm \ {rt} ELSE tm) \cup {time + DebounceDelay},
   reloadTimer |-> time + DebounceDelay]

\* the callback of fs.watch: reloads are scheduled for 'change' events that
\* carry a file name only
WatchCallbackSchedules(eventType, hasFilename) ==
  hasFilename /\ eventType = "change"

\* startWatching is called; it returns at once when already watching
MaxStartCalls == 1
startWatching(s) ==
  /\ starts[s].pc = "idle"
  /\ ~isWatching
  /\ hist.startCalls[s] < MaxStartCalls
  /\ starts' = [starts EXCEPT ![s] = [pc |-> "stat", dir |-> 1]]
  /\ hist' = [hist EXCEPT !.stopped = FALSE, !.firedAfterStop = FALSE,
                          !.startCalls[s] = @ + 1]
  /\ UNCHANGED <<call, fs, dirExists, commands, loads, svcCommands, watchers,
                 isWatching, reloadTimer, open, timers, now>>

\* directoryExists settles in startWatching: the directory is watched if it
\* exists, then the next directory's check is awaited or isWatching is set
NewHandle == CHOOSE h \in 1..(Cardinality(open) + Len(watchers) + 1) :
               /\ h \notin {w.id : w \in open}
               /\ \A i \in DOMAIN watchers : watchers[i] # h
StartStat(s) ==
  LET st == starts[s]
  IN /\ st.pc = "stat"
     /\ IF dirExists[st.dir]
          THEN /\ open' = open \cup {[id |-> NewHandle, dir |-> st.dir]}
               /\ watchers' = Append(watchers, NewHandle)
          ELSE UNCHANGED <<open, watchers>>
     /\ IF st.dir < Len(directories)
          THEN /\ starts' = [starts EXCEPT ![s] = [pc |-> "stat", dir |-> st.dir + 1]]
               /\ UNCHANGED isWatching
          ELSE /\ starts' = [starts EXCEPT ![s] = NotStarting]
               /\ isWatching' = TRUE
     /\ UNCHANGED <<call, fs, dirExists, commands, loads, svcCommands, reloadTimer,
                    timers, now, hist>>

\* stopWatching: every watcher held is closed, the timer held is cleared
StopEffects(disposing) ==
  /\ open' = {w \in open : \A i \in DOMAIN watchers : watchers[i] # w.id}
  /\ watchers' = <<>>
  /\ isWatching' = FALSE
  /\ timers' = IF reloadTimer # 0 THEN timers \ {reloadTimer} ELSE timers
  /\ reloadTimer' = 0
  /\ hist' = [hist EXCEPT !.stopped = TRUE, !.firedAfterStop = FALSE,
                          !.cancelled = (@ \/ reloadTimer \in timers),
                          !.disposed = (@ \/ disposing)]
stopWatching ==
  /\ StopEffects(FALSE)
  /\ UNCHANGED <<call, fs, dirExists, commands, loads, svcCommands, starts, now>>

\* dispose: stopWatching, then the map is cleared
dispose ==
  /\ StopEffects(TRUE)
  /\ commands' = <<>>
  /\ UNCHANGED <<call, fs, dirExists, loads, svcCommands, starts, now>>

\* a timer that comes due and is dropped without its callback being run
TimerFire_Lost(l) ==
  /\ \E due \in timers :
       /\ now >= due
       /\ timers' = timers \ {due}
  /\ UNCHANGED <<call, fs, dirExists, commands, loads, svcCommands, watchers,
                 isWatching, reloadTimer, starts, open, now, hist>>

\* a timer that is due fires: its callback calls loadCustomCommands
TimerFire(l) ==
  /\ \E due \in timers :
       /\ now >= due
       /\ timers' = timers \ {due}
  /\ BeginLoad(l, "timer")
  /\ hist' = [hist EXCEPT !.firedSince = IF @ < 2 THEN @ + 1 ELSE @,
                          !.lastFire = now,
                          !.firedAfterStop = (@ \/ hist.stopped),
                          !.cycles = BeginCycle(l)]
  /\ UNCHANGED <<call, fs, dirExists, svcCommands, watchers, isWatching, reloadTimer,
                 starts, open, now>>

TickStep == DebounceDelay \div 2
MaxTicks == 3
Tick ==
  /\ now + TickStep <= MaxTicks * TickStep
  /\ now' = now + TickStep
  /\ UNCHANGED <<call, fs, dirExists, commands, loads, svcCommands, watchers,
                 isWatching, reloadTimer, starts, open, timers, hist>>

(***************************************************************************)
(* Changes of the directories, and the events fs.watch reports for them    *)
(***************************************************************************)
MaxFsOps == 2
\* the watchers of directory d are called back with the event
Notify(d, eventType, hasFilename) ==
  IF (\E w \in open : w.dir = d) /\ WatchCallbackSchedules(eventType, hasFilename)
    THEN LET r == scheduleReload(timers, reloadTimer, now)
         IN /\ timers' = r.timers
            /\ reloadTimer' = r.reloadTimer
            /\ hist' = [hist EXCEPT
                 !.fsOps = @ + 1,
                 !.midBurst = \/ @
                              \/ /\ hist.lastNotify >= 0
                                 /\ now - hist.lastNotify < DebounceDelay
                                 /\ hist.firedSince > 0
                                 /\ ~hist.cancelled,
                 !.burstLength = IF /\ hist.lastNotify >= 0
                                    /\ now - hist.lastNotify < DebounceDelay
                                    /\ ~hist.cancelled
                                   THEN 2 ELSE 1,
                 !.lastNotify = now, !.firedSince = 0, !.cancelled = FALSE]
    ELSE /\ UNCHANGED <<timers, reloadTimer>>
         /\ hist' = [hist EXCEPT !.fsOps = @ + 1]

\* the entries the watching specification writes
WatchKeys == {"build.json", "build.json#2"}
WatchSlots == {1}

\* a file's content is written: a 'change' event
FsWrite(d, i, k, hasFilename) ==
  /\ hist.fsOps < MaxFsOps
  /\ fs[d][i] # NoFile /\ FileName(k) = FileName(fs[d][i])
  /\ fs' = [fs EXCEPT ![d][i] = k]
  /\ Notify(d, "change", hasFilename)
  /\ UNCHANGED <<call, dirExists, commands, loads, svcCommands, watchers, isWatching,
                 starts, open, now>>
\* a file appears in the directory (moved into it): a 'rename' event
FsCreate(d, i, k, hasFilename) ==
  /\ hist.fsOps < MaxFsOps
  /\ dirExists[d] /\ fs[d][i] = NoFile
  /\ \A j \in Slots : fs[d][j] # NoFile => FileName(fs[d][j]) # FileName(k)
  /\ fs' = [fs EXCEPT ![d][i] = k]
  /\ Notify(d, "rename", hasFilename)
  /\ UNCHANGED <<call, dirExists, commands, loads, svcCommands, watchers, isWatching,
                 starts, open, now>>
\* a file is removed: a 'rename' event
FsDelete(d, i, hasFilename) ==
  /\ hist.fsOps < MaxFsOps
  /\ fs[d][i] # NoFile
  /\ fs' = [fs EXCEPT ![d][i] = NoFile]
  /\ Notify(d, "rename", hasFilename)
  /\ UNCHANGED <<call, dirExists, commands, loads, svcCommands, watchers, isWatching,
                 starts, open, now>>

(***************************************************************************)
(* Initial states and specifications                                       *)
(***************************************************************************)
\* a directory's entries have different names; an absent directory has none
FsOk(f, e) ==
  \A d \in Dirs :
    /\ \A i, j \in Slots :
         i # j /\ f[d][i] # NoFile /\ f[d][j] # NoFile
           => FileName(f[d][i]) # FileName(f[d][j])
    /\ ~e[d] => \A i \in Slots : f[d][i] = NoFile

InitProgram ==
  /\ commands = <<>>
  /\ loads = [l \in LoadIds |-> Idle]
  /\ svcCommands = <<>>
  /\ watchers = <<>>
  /\ isWatching = FALSE
  /\ reloadTimer = 0
  /\ starts = [s \in StartIds |-> NotStarting]
  /\ open = {}
  /\ timers = {}
  /\ now = 0
  /\ hist = NoHistory
  /\ call = NoCall

\* loading: any content of the two directories, which does not change
InitLoad ==
  /\ dirExists \in [Dirs -> BOOLEAN]
  /\ fs \in [Dirs -> [Slots -> LoadKeys \cup {NoFile}]]
  /\ FsOk(fs, dirExists)
  /\ InitProgram

NextLoad ==
  \/ loadCommands(1)
  \/ LoadStat(1)
  \/ LoadReaddir(1)
  \/ LoadFile(1)

SpecLoad == InitLoad /\ [][NextLoad]_vars

\* watching: both directories exist, the project directory holds one command,
\* and CommandService.loadCommands has returned
InitialCommand ==
  loadCommandFromFile(1, FileName("build.json"),
                      [ok |-> TRUE, key |-> "build.json"]).command[1]
Loaded(command) ==
  /\ commands = Register(<<>>, command)
  /\ svcCommands = MapValues(commandMap(<<command>>))
  /\ hist = [NoHistory EXCEPT
               !.serviceLoads[1] = 1,
               !.cycles = [@ EXCEPT !.last = 1],
               !.service = [done |-> TRUE, customCommands |-> <<command>>,
                            map |-> commandMap(<<command>>),
                            listed |-> {<<1, FileName("build.json")>>},
                            reads |-> {<<1, FileName("build.json"), "build.json">>},
                            failed |-> FALSE]]
InitWatch ==
  /\ dirExists = [d \in Dirs |-> TRUE]
  /\ fs = [d \in Dirs |-> [i \in Slots |-> IF d = 1 /\ i = 1 THEN "build.json" ELSE NoFile]]
  /\ Loaded(InitialCommand)
  /\ loads = [l \in LoadIds |-> Idle]
  /\ watchers = <<>>
  /\ isWatching = FALSE
  /\ reloadTimer = 0
  /\ starts = [s \in StartIds |-> NotStarting]
  /\ open = {}
  /\ timers = {}
  /\ now = 0
  /\ call = NoCall

NextWatch ==
  \/ \E l \in {1} : LoadStat(l) \/ LoadReaddir(l) \/ LoadFile(l) \/ TimerFire(l)
  \/ \E s \in {1} : startWatching(s) \/ StartStat(s)
  \/ stopWatching
  \/ dispose
  \/ Tick
  \/ \E d \in Dirs, i \in WatchSlots :
       \/ \E k \in WatchKeys, n \in BOOLEAN : FsWrite(d, i, k, n)
       \/ \E k \in WatchKeys : FsCreate(d, i, k, TRUE)
       \/ FsDelete(d, i, TRUE)

SpecWatch == InitWatch /\ [][NextWatch]_vars

\* two callers of CommandService.loadCommands (or reloadCommands), whose
\* load cycles can overlap, over directories that change meanwhile
InitOverlap ==
  /\ dirExists = [d \in Dirs |-> TRUE]
  /\ \E k \in {NoFile, "build.json#2"} :
       fs = [d \in Dirs |-> [i \in Slots |->
               IF i # 1 THEN NoFile ELSE IF d = 1 THEN "build.json" ELSE k]]
  /\ InitProgram

NextOverlap ==
  \/ \E l \in LoadIds : loadCommands(l) \/ LoadStat(l) \/ LoadReaddir(l) \/ LoadFile(l)
  \/ \E d \in Dirs, i \in WatchSlots :
       \/ \E k \in WatchKeys : FsWrite(d, i, k, TRUE)
       \/ \E k \in WatchKeys : FsCreate(d, i, k, TRUE)
       \/ FsDelete(d, i, TRUE)

SpecOverlap == InitOverlap /\ [][NextOverlap]_vars

\* the watching loader with a second caller of startWatching, whose call can
\* begin while the first is suspended at directoryExists
NextStart ==
  \/ NextWatch
  \/ \E s \in {2} : startWatching(s) \/ StartStat(s)

SpecStart == InitWatch /\ [][NextStart]_vars

\* the watching loader on a running event loop: time passes, a timer that is
\* due fires, and the file system answers each call of a load.  LoadFile(1)
\* is enabled exactly while the load awaits a read and always changes the
\* load, so its weak fairness is the recurrence of the states in which no
\* read is awaited
SpecWatchFair ==
  /\ SpecWatch
  /\ WF_vars(Tick)
  /\ WF_vars(TimerFire(1))
  /\ WF_vars(LoadStat(1))
  /\ WF_vars(LoadReaddir(1))
  /\ []<>(loads[1].pc # "file")

(***************************************************************************)
(* One call of a parser on one file, and of the action of its command      *)
(***************************************************************************)
EchoHi == <<"e","c","h","o"," ","h","i">>
World == <<"w","o","r","l","d">>
\* the values a property of a JSON object takes in the calls
JsonValues ==
  { Undef, Str(<<>>), Str(build), Str(<<"1","x">>), Str(<<"a"," ","b">>),
    Str(EchoHi), Str(ArgsPlaceholder),
    Str(<<"-","n"," ">> \o ArgsPlaceholder \o <<" ">> \o ArgsPlaceholder),
    Num("0"), Num("5"), Bool(FALSE), Bool(TRUE) }
JsonFields == {"name", "altName", "description", "category", "author",
               "version", "command", "args", "cwd"}
\* { "name": "build", "command": "echo hi", "args": "{{args}}" }
BaseConfig == Config(Str(build), Undef, Str(EchoHi), Str(ArgsPlaceholder))
\* the texts of the JSON files: the base object with up to two properties
\* set otherwise, a malformed text and the literal null
JsonTexts ==
  { JsonObject([BaseConfig EXCEPT ![f1] = v1, ![f2] = v2]) :
      f1 \in JsonFields, f2 \in JsonFields, v1 \in JsonValues, v2 \in JsonValues }
  \cup { Entry("broken.json").text, Entry("null.json").text }
\* the arguments a user gives to an action
UserArgs == { <<>>, World, <<"$","$">>, <<"$","&">>, <<" ","x"," ">> }

NotDone == [done |-> FALSE, errors |-> <<>>, command |-> Null, registry |-> <<>>,
            invoked |-> FALSE, userArgs |-> <<>>, projectRoot |-> Undef,
            returned |-> ErrorMessage]
\* the map after loadCommandsFromDirectory has set the command, if any
Registered(command) ==
  IF command = Null THEN <<>> ELSE Register(<<>>, command[1])

\* loadJsonCommand on the text of a file
CallLoadJson ==
  /\ call.fn = "json" /\ ~call.out.done
  /\ call' = [call EXCEPT
       !.out = [NotDone EXCEPT
          !.done = TRUE,
          !.errors = IF call.text.kind = "object"
                       THEN validateSimpleCommand(call.text.config) ELSE <<>>,
          !.command = loadJsonCommand(call.text),
          !.registry = Registered(loadJsonCommand(call.text))]]
  /\ UNCHANGED loaderVars

\* the action of the command a parser returned is invoked; the contexts of
\* the prose commands all give the project root
CallAction(userArgs, projectRoot) ==
  /\ call.fn \in {"json", "markdown"}
  /\ call.fn = "markdown" => projectRoot = ProjectRoot
  /\ call.out.done /\ ~call.out.invoked
  /\ call.out.command # Null
  /\ call.out.command[1].action.kind # "none"
  /\ call' = [call EXCEPT
       !.out.invoked = TRUE,
       !.out.userArgs = userArgs,
       !.out.projectRoot = projectRoot,
       !.out.returned = InvokeAction(call.out.command[1].action, userArgs,
                                     projectRoot)]
  /\ UNCHANGED loaderVars

\* the lines of the prose files
NpmRunBuild == <<"n","p","m"," ","r","u","n"," ","b","u","i","l","d">>
LineBuild == H1 \o <<"B","u","i","l","d">>
LineUsage == H2 \o <<"U","s","e">>
LinePlain == <<"R","u","n","s">>
LineNonAscii == H1 \o <<"U+6A21", "U+5757">>
LineDigits == H1 \o <<"1","2","3">>
\* titles with digits, hyphens, runs of white space and punctuation around
\* the letters, and of more than MaxNameLength characters with a space at
\* the place where the name is cut
LineMixed == H1 \o <<"1","-","M","y"," ","\t","T","o","o","l","_","v","2","!","-">>
LineLong == H1 \o [i \in 1..(MaxNameLength - 1) |-> "A"] \o <<" ","b","c">>
MdLines == { LineBuild, LineUsage, LinePlain, FenceBash, Fence, NpmRunBuild, <<>> }
\* fences of blocks that are no shell blocks: a JavaScript block and a block
\* of ShaderLab code, whose tag begins as the tag sh does
FenceJs == Fence \o <<"j","s">>
FenceShader == Fence \o <<"s","h","a","d","e","r">>
\* the lines of the files that hold fenced blocks only
BlockLines == { FenceSh, FenceJs, FenceShader, Fence, NpmRunBuild, EchoHi }
MaxLines == 5
\* the prose files: every file of n lines of a set of lines, named doc.md,
\* and files whose title gives no name under base names that do or do not
MdFiles(lineSet, n) ==
  { [lines |-> l, filename |-> doc] : l \in [1..n -> lineSet] }
TitleFiles ==
  { [lines |-> l, filename |-> f] :
      l \in { <<LineNonAscii>>, <<LineDigits, LinePlain>>, <<LinePlain>>,
              <<LineNonAscii, FenceBash, NpmRunBuild, Fence>>,
              <<LineMixed>>, <<LineLong, LinePlain>> },
      f \in { doc, <<"U+6A21">>, <<"M","y"," ","D","o","c","!">>, <<"4","2">> } }

\* loadMarkdownCommand on a file
CallLoadMarkdown ==
  /\ call.fn = "markdown" /\ ~call.out.done
  /\ call' = [call EXCEPT
       !.out = [NotDone EXCEPT
          !.done = TRUE,
          !.command = loadMarkdownCommand(call.file.lines, call.file.filename),
          !.registry = Registered(loadMarkdownCommand(call.file.lines,
                                                      call.file.filename))]]
  /\ UNCHANGED loaderVars

\* the objects a module exports: a command with up to MaxSubs sub-commands,
\* each a valid command, one with a defect, null, or a command with a
\* sub-command of its own that has a defect
SubCommand(name) == Candidate(name, Undef, Undef, NoMetadata)
NullCandidate == [SubCommand(Undef) EXCEPT !.isNull = TRUE]
WithSubCommands(command, items) ==
  [command EXCEPT !.subCommands = Arr([i \in DOMAIN items |-> "object"]),
                  !.subItems = items]
SubItems ==
  { SubCommand(Str(b)), SubCommand(Str(<<"1","x">>)), SubCommand(Undef),
    NullCandidate,
    WithSubCommands(SubCommand(Str(doc)), <<SubCommand(Str(<<"1","x">>))>>) }
MaxSubs == 3
Candidates ==
  { WithSubCommands(SubCommand(Str(build)), items) :
      items \in UNION { [1..n -> SubItems] : n \in 0..MaxSubs } }
  \cup { item \in SubItems : ~item.isNull }

\* loadTypeScriptCommand on a module whose default export is the candidate;
\* the defects are those validateCommand collects when nothing is thrown
CallValidate ==
  /\ call.fn = "module" /\ ~call.out.done
  /\ call' = [call EXCEPT
       !.threw = validateCommandThrows(call.candidate),
       !.out = [NotDone EXCEPT
          !.done = TRUE,
          !.errors = IF validateCommandThrows(call.candidate) THEN <<>>
                     ELSE validateCommandErrors(call.candidate),
          !.command = loadTypeScriptCommand(Module(TRUE, Obj, call.candidate))]]
  /\ UNCHANGED loaderVars

InitParse ==
  /\ dirExists = [d \in Dirs |-> FALSE]
  /\ fs = [d \in Dirs |-> [i \in Slots |-> NoFile]]
  /\ commands = <<>>
  /\ loads = [l \in LoadIds |-> Idle]
  /\ svcCommands = <<>>
  /\ watchers = <<>>
  /\ isWatching = FALSE
  /\ reloadTimer = 0
  /\ starts = [s \in StartIds |-> NotStarting]
  /\ open = {}
  /\ timers = {}
  /\ now = 0
  /\ hist = NoHistory
  /\ \/ \E text \in JsonTexts : call = [fn |-> "json", text |-> text, out |-> NotDone]
     \/ \E lineSet \in { MdLines, BlockLines }, n \in 0..MaxLines :
          \E file \in MdFiles(lineSet, n) :
            call = [fn |-> "markdown", file |-> file, out |-> NotDone]
     \/ \E file \in TitleFiles :
          call = [fn |-> "markdown", file |-> file, out |-> NotDone]
     \/ \E candidate \in Candidates :
          call = [fn |-> "module", candidate |-> candidate, threw |-> FALSE,
                  out |-> NotDone]

NextParse ==
  \/ CallLoadJson
  \/ CallLoadMarkdown
  \/ CallValidate
  \/ \E userArgs \in UserArgs, projectRoot \in ProjectRoots :
       CallAction(userArgs, projectRoot)

SpecParse == InitParse /\ [][NextParse]_vars

(***************************************************************************)
(* Properties of a load (CommandService.loadCommands)                      *)
(***************************************************************************)
ScopeOf(command) ==
  IF command.origin.dir = 0 THEN "builtin" ELSE directories[command.origin.dir].scope
CustomNamed(k, scope) ==
  {i \in DOMAIN hist.service.customCommands :
     /\ ScopeOf(hist.service.customCommands[i]) = scope
     /\ hist.service.customCommands[i].name = k}
CustomUsing(k, scope) ==
  {i \in DOMAIN hist.service.customCommands :
     LET c == hist.service.customCommands[i]
     IN /\ ScopeOf(c) = scope
        /\ (c.name = k \/ (Truthy(c.altName) /\ c.altName = k))}
BuiltInNamed(k) == \E i \in DOMAIN loadBuiltInCommands : loadBuiltInCommands[i].name = k
\* some custom command has k as its alternate name
CustomAliased(k) ==
  \E i \in DOMAIN hist.service.customCommands :
    LET c == hist.service.customCommands[i]
    IN Truthy(c.altName) /\ c.altName = k

\* C1: after loadCommands, a name that a built-in, a project and a personal
\* command all have resolves to a command read from the personal directory;
\* a name that only a built-in and a project command have (no personal
\* command uses it) resolves to a command read from the project directory.
\* When no custom command has the name as its alternate name, the command it
\* resolves to is one with that name.
C1_OverrideOrder ==
  hist.service.done =>
    \A k \in MapKeys(hist.service.map) :
      BuiltInNamed(k) /\ CustomNamed(k, "project") # {} =>
        LET entry == MapGet(hist.service.map, k)
        IN /\ CustomNamed(k, "personal") # {} =>
                /\ ScopeOf(entry) = "personal"
                /\ ~CustomAliased(k) => entry.name = k
           /\ CustomUsing(k, "personal") = {} =>
                /\ ScopeOf(entry) = "project"
                /\ ~CustomAliased(k) => entry.name = k
C1_Witness ==
  /\ hist.service.done
  /\ BuiltInNamed(Str(help))
  /\ CustomNamed(Str(help), "project") # {}
  /\ CustomNamed(Str(help), "personal") # {}
  /\ ~CustomAliased(Str(help))
  /\ ScopeOf(MapGet(hist.service.map, Str(help))) = "personal"
  /\ MapGet(hist.service.map, Str(help)).name = Str(help)

\* C8: in the registry of a load, the name and the alternate name of every
\* command that has both resolve to the same object.
C8_AliasSameObject ==
  hist.service.done =>
    \A i \in DOMAIN hist.service.map :
      LET c == hist.service.map[i].val
      IN Truthy(c.altName) =>
           /\ MapHas(hist.service.map, c.name)
           /\ MapHas(hist.service.map, c.altName)
           /\ MapGet(hist.service.map, c.name) = MapGet(hist.service.map, c.altName)

\* C9: every command the loader returns carries the scope of its directory,
\* the format of its extension and its file's path in its metadata.
C9_MetadataStamped ==
  hist.service.done =>
    \A i \in DOMAIN hist.service.customCommands :
      LET c == hist.service.customCommands[i]
          name == FileName(c.origin.key)
      IN /\ c.metadata.scope = Tok(directories[c.origin.dir].scope)
         /\ c.metadata.sourceFormat = Tok(getSourceFormat(ExtLower(name[2])))
         /\ c.metadata.sourcePath = Str(FilePath(c.origin.dir, name))

\* the command a read yields on its own
ReadAlone(r) == loadCommandFromFile(r[1], r[2], [ok |-> r[3] # NoFile, key |-> r[3]]).command

\* C10: a file that yields no command changes nothing for the others: every
\* entry of every directory that could be listed is read, every read that
\* yields a command on its own has that command returned and its name
\* registered, and every returned command is the one its file yields.
C10_FailureIsolated ==
  hist.service.done =>
    /\ \A d \in Dirs, i \in Slots :
         dirExists[d] /\ fs[d][i] # NoFile /\ ~hist.service.failed
           => <<d, FileName(fs[d][i])>> \in hist.service.listed
    /\ \A e \in hist.service.listed :
         Suspends(e[2]) => \E r \in hist.service.reads : r[1] = e[1] /\ r[2] = e[2]
    /\ \A r \in hist.service.reads :
         ReadAlone(r) # Null =>
           /\ \E i \in DOMAIN hist.service.customCommands :
                hist.service.customCommands[i] = ReadAlone(r)[1]
           /\ MapHas(hist.service.map, ReadAlone(r)[1].name)
    /\ \A i \in DOMAIN hist.service.customCommands :
         \E r \in hist.service.reads :
           ReadAlone(r) = Some(hist.service.customCommands[i])
\* a directory whose first entry yields no command and whose second does,
\* and a command from the other directory
C10_Witness ==
  /\ hist.service.done
  /\ \E r1, r2, r3 \in hist.service.reads :
       /\ r1[1] = 1 /\ r2[1] = 1 /\ r3[1] = 2
       /\ fs[1][1] = r1[3] /\ fs[1][2] = r2[3]
       /\ r1[3] \in {"broken.json", "throws.ts", "1x.json"}
       /\ ReadAlone(r1) = Null
       /\ ReadAlone(r2) # Null /\ ReadAlone(r3) # Null
       /\ MapHas(hist.service.map, ReadAlone(r2)[1].name)
       /\ MapHas(hist.service.map, ReadAlone(r3)[1].name)
(***************************************************************************)
(* Properties of the watcher and of a reload                               *)
(***************************************************************************)
\* C2: every map a consumer could read at a suspension of a reload is the map
\* from before the reload or the map the reload ends with.
C2_AtomicReplace ==
  hist.reload.done =>
    hist.reload.seen \subseteq {hist.reload.before, hist.reload.after}

\* C3: a reload during which a directory could not be read leaves the map as
\* it was before the reload.
C3_FailedReloadKeepsRegistry ==
  hist.reload.done /\ hist.reload.failed =>
    hist.reload.after = hist.reload.before

C5_NoReloadAfterStop ==
  hist.stopped => timers = {} /\ ~hist.firedAfterStop

\* C6: once stopWatching or dispose has returned (and until startWatching is
\* called again), no watcher is open.
C6_NoWatcherAfterStop ==
  hist.stopped => open = {}

\* C7: when a reload has returned without a failure, the commands of
\* CommandService are the merge of the built-in commands and the commands
\* that reload returned.
C7_ServiceSeesReload ==
  hist.reload.done /\ ~hist.reload.failed /\ hist.reload.serviceDone =>
    hist.reload.service = MapValues(commandMap(hist.reload.loadedCommands))

\* C16: while watching, every change of a watched directory (a file written,
\* created or deleted: an event of either type, with or without a file name)
\* clears the timer held and sets a new one, due one delay later.
C16_EveryEventRestarts ==
  [][\A d \in Dirs :
       (isWatching /\ fs'[d] # fs[d] /\ \E w \in open : w.dir = d) =>
         /\ reloadTimer' = now + DebounceDelay
         /\ reloadTimer' \in timers'
         /\ reloadTimer # reloadTimer' => reloadTimer \notin timers']_vars

\* the due times within the time the clock covers
DueTimes == { n * TickStep : n \in 0..MaxTicks }

\* C17: when a notification has set the timer while watching, then, unless a
\* later notification arrives or stopWatching is called, a reload that begins
\* after the notification runs to its end: the timer fires and
\* loadCustomCommands returns.
C17_ReloadEventuallyRuns ==
  \A t \in DueTimes :
    (/\ isWatching /\ ~hist.stopped
     /\ reloadTimer = t /\ t \in timers
     /\ hist.lastNotify = t - DebounceDelay /\ hist.firedSince = 0)
    ~> (\/ hist.stopped
        \/ hist.lastNotify # t - DebounceDelay
        \/ /\ hist.firedSince >= 1
           /\ loads[1] = Idle
           /\ hist.reload.done)
\* the reload of a notification has run to its end while watching
C17_Witness ==
  /\ isWatching /\ ~hist.stopped /\ ~hist.cancelled
  /\ hist.lastNotify >= 0 /\ hist.firedSince >= 1
  /\ hist.lastFire = hist.lastNotify + DebounceDelay
  /\ timers = {}
  /\ loads[1] = Idle /\ hist.reload.done

\* C26: after CommandService.loadCommands has returned, no two entries of
\* the list getCommands returns have the same name.
C26_NoDuplicateNames ==
  hist.service.done =>
    \A i, j \in DOMAIN svcCommands :
      i # j => svcCommands[i].name # svcCommands[j].name

\* C27: at any time at most one watcher is open on each directory.
C27_OneWatcherPerDirectory ==
  \A d \in Dirs : Cardinality({w \in open : w.dir = d}) <= 1

\* C28: once dispose has returned, the loader's map is empty, and it stays
\* empty whatever resumes afterwards.
C28_EmptyAfterDispose ==
  hist.disposed => commands = <<>>

\* C29: when two load cycles have overlapped and both have returned, neither
\* having failed to read a directory, the loader's map is the map of one load
\* of what the cycle begun last has listed and read: the same keys, each with
\* the same command.
C29_OverlapAsLaterCycle ==
  (/\ hist.cycles.overlapped
   /\ \A l \in LoadIds : loads[l].pc = "idle"
   /\ ~hist.cycles.failed) =>
    LET expected == RegisterAll(<<>>, hist.cycles.loaded[hist.cycles.last])
    IN /\ MapKeys(commands) = MapKeys(expected)
       /\ \A k \in MapKeys(expected) : MapGet(commands, k) = MapGet(expected, k)

\* C15: a well-formed YAML file of a directory that was listed yields a
\* command that is returned and registered under its name, as the JSON file
\* with the same properties does.
C15_YamlLoaded ==
  hist.service.done =>
    \A e \in hist.service.listed :
      e[2] = FileName("conf.yaml") =>
        /\ loadJsonCommand(Entry("conf.yaml").text) # Null
        /\ \E i \in DOMAIN hist.service.customCommands :
             hist.service.customCommands[i].name =
               loadJsonCommand(Entry("conf.yaml").text)[1].name
        /\ MapHas(hist.service.map, Str(<<"c">>))

(***************************************************************************)
(* Properties of the parsers and of the actions they build                 *)
(***************************************************************************)
\* a name the naming rule excludes: a string that is empty, starts with a
\* digit, holds a space or any other character the rule does not allow
InvalidName(name) == IsString(name) /\ ~NamePattern(name.v)
HasDefect(errors, e) == \E i \in DOMAIN errors : errors[i] = e

\* C11: the command of a valid JSON file has the file's name as its name and
\* is registered under it; a file whose name breaks the naming rule yields
\* no command, registers nothing and has a defect that states the rule.
C11_NameEchoedOrRuleDefect ==
  call.fn = "json" /\ call.out.done /\ call.text.kind = "object" =>
    LET config == call.text.config
    IN /\ call.out.command # Null =>
            /\ call.out.command[1].name = config.name
            /\ MapHas(call.out.registry, config.name)
            /\ MapGet(call.out.registry, config.name).name = config.name
       /\ InvalidName(config.name) =>
            /\ call.out.command = Null
            /\ call.out.registry = <<>>
            /\ HasDefect(call.out.errors, ErrNameRule)

\* a with the placeholder replaced by u as plain text: its first occurrence,
\* or every occurrence
RECURSIVE PlainAll(_, _)
PlainAll(a, u) ==
  LET i == IndexOf(a, ArgsPlaceholder, 0)
  IN IF i < 0 THEN a
     ELSE SubSeq(a, 1, i) \o u
          \o PlainAll(SubSeq(a, i + Len(ArgsPlaceholder) + 1, Len(a)), u)
PlainFirst(a, u) ==
  LET i == IndexOf(a, ArgsPlaceholder, 0)
  IN IF i < 0 THEN a
     ELSE SubSeq(a, 1, i) \o u \o SubSeq(a, i + Len(ArgsPlaceholder) + 1, Len(a))

\* C12: the action of a JSON file with command c and args a, invoked with u,
\* returns a request for run_shell_command whose command is c, a space and a
\* with the placeholder replaced by u (read generously: the first or every
\* occurrence, with or without the white space at the ends).
C12_ComposedCommand ==
  /\ call.fn = "json" /\ call.out.invoked
  /\ IsString(call.text.config.command) /\ IsString(call.text.config.args)
  => LET c == call.text.config.command.v
         a == call.text.config.args.v
         u == call.out.userArgs
         first == c \o <<" ">> \o PlainFirst(a, u)
         every == c \o <<" ">> \o PlainAll(a, u)
     IN /\ call.out.returned.type = "tool"
        /\ call.out.returned.toolName = "run_shell_command"
        /\ call.out.returned.command \in {first, Trim(first), every, Trim(every)}

\* C18: a JSON object in which one of description, category, author,
\* version, command, args, cwd is present and not a string yields no command.
C18_NonStringRejected ==
  call.fn = "json" /\ call.out.done /\ call.text.kind = "object" =>
    \A f \in {"description", "category", "author", "version", "command",
              "args", "cwd"} :
      call.text.config[f] # Undef /\ ~IsString(call.text.config[f])
        => call.out.command = Null

\* C23: the request for run_shell_command of a JSON command has as working
\* directory the file's cwd when the file gives one (a non-empty string),
\* otherwise the project root of the caller's context when the context
\* gives one, otherwise the working directory of the process.
C23_WorkingDirectory ==
  /\ call.fn = "json" /\ call.out.invoked
  /\ call.out.returned.type = "tool"
  => LET cwd == call.text.config.cwd
         projectRoot == call.out.projectRoot
     IN /\ (IsString(cwd) /\ cwd.v # <<>>) => call.out.returned.cwd = cwd
        /\ (cwd = Undef \/ cwd = Str(<<>>)) =>
             call.out.returned.cwd =
               (IF IsString(projectRoot) /\ projectRoot.v # <<>>
                  THEN projectRoot ELSE ProcessCwd)
\* a file without cwd has been invoked in a context without a project root
C23_Witness ==
  /\ call.fn = "json" /\ call.out.invoked
  /\ call.text.config.cwd = Undef /\ call.out.projectRoot = Undef
  /\ call.out.returned.type = "tool"
  /\ call.out.returned.cwd = ProcessCwd

\* C24: the action of a JSON command puts the user's argument into its args
\* template as the action of a prose command puts it into its shell block:
\* the command it returns is the one the prose substitution gives for the
\* same template and the same argument.
C24_SameSubstitution ==
  /\ call.fn = "json" /\ call.out.invoked
  /\ call.out.returned.type = "tool"
  => LET c == call.text.config.command.v
         a == call.text.config.args.v
         prose == MarkdownShellAction([command |-> a], call.out.userArgs,
                                      call.out.projectRoot)
     IN call.out.returned.command = Trim(c \o <<" ">> \o prose.command)

\* a name of at most MaxNameLength characters that matches the naming rule
SanitizedName(name) == Len(name) <= MaxNameLength /\ NamePattern(name)

\* C25: every command a parser returns, and every command registered, has a
\* string as name that matches ^[A-Za-z][A-Za-z0-9-]*$; sanitizeCommandName
\* gives, for the title and for the base name of a prose file, the empty
\* name or a name of at most 50 characters that matches it, and the name of
\* a prose command is such a name.
C25_NamesMatchRule ==
  call.fn # "none" /\ call.out.done =>
    /\ call.out.command # Null =>
         /\ IsString(call.out.command[1].name)
         /\ NamePattern(call.out.command[1].name.v)
    /\ \A i \in DOMAIN call.out.registry :
         /\ IsString(call.out.registry[i].val.name)
         /\ NamePattern(call.out.registry[i].val.name.v)
    /\ call.fn = "markdown" =>
         /\ \A text \in {MarkdownTitle(call.file.lines), call.file.filename} :
              LET sanitized == sanitizeCommandName(text)
              IN sanitized = <<>> \/ SanitizedName(sanitized)
         /\ call.out.command # Null => SanitizedName(call.out.command[1].name.v)
\* a title of more than 50 characters has given a name of 50 that ends with
\* the hyphen put for the space
C25_Witness ==
  /\ call.fn = "markdown" /\ call.out.done
  /\ call.file.lines = <<LineLong, LinePlain>>
  /\ call.out.command # Null
  /\ call.out.command[1].name =
       Str([i \in 1..(MaxNameLength - 1) |-> "a"] \o <<"-">>)

\* whether a line opens or closes a fenced block
IsFenceLine(line) == StartsWith(Trim(line), Fence)
\* the first line that is a top-level heading is '# Build'
FirstHeadingIsBuild(lines) ==
  \E h \in DOMAIN lines :
    /\ lines[h] = LineBuild
    /\ \A j \in 1..(h-1) : ~StartsWith(Trim(lines[j]), H1)
\* the first fenced block is a bash block whose content is 'npm run build'
HasBuildBlock(lines) ==
  \E i \in 1..(Len(lines) - 2) :
    /\ lines[i] = FenceBash /\ lines[i+1] = NpmRunBuild /\ lines[i+2] = Fence
    /\ \A j \in 1..(i-1) : ~IsFenceLine(lines[j])
IsBuildFile(file) == FirstHeadingIsBuild(file.lines) /\ HasBuildBlock(file.lines)

\* C13: a prose file whose first top-level heading is '# Build' and whose
\* fenced bash block holds 'npm run build' yields a command named build, and
\* its action, invoked with the empty argument string, returns a request for
\* run_shell_command whose command is exactly 'npm run build'.
C13_BuildFile ==
  call.fn = "markdown" /\ call.out.done /\ IsBuildFile(call.file) =>
    /\ call.out.command # Null
    /\ call.out.command[1].name = Str(build)
    /\ call.out.invoked /\ call.out.userArgs = <<>> =>
         /\ call.out.returned.type = "tool"
         /\ call.out.returned.toolName = "run_shell_command"
         /\ call.out.returned.command = NpmRunBuild
\* the action of such a file has been invoked with the empty string, other
\* lines standing before the heading and the block
C13_Witness ==
  /\ call.fn = "markdown" /\ call.out.invoked /\ call.out.userArgs = <<>>
  /\ call.file.lines = <<LinePlain, LineBuild, FenceBash, NpmRunBuild, Fence>>
  /\ call.out.command[1].name = Str(build)
  /\ call.out.returned.command = NpmRunBuild

\* a text without an ASCII letter: what is left of it when the characters a
\* name cannot hold and the leading non-letters are removed is empty
NoLetter(text) == \A i \in DOMAIN text : ~(IsAscii(text[i]) /\ IsLetter(text[i]))
MyDoc == <<"M","y"," ","D","o","c","!">>

\* C14: when the title of a prose file sanitizes to the empty name, the
\* command's name is the sanitized base name of the file (my-doc for
\* 'My Doc!'); when that is empty too, the parser returns no command (and
\* throws nothing: the call returns).
C14_NameFallback ==
  /\ call.fn = "markdown" /\ call.out.done
  /\ NoLetter(MarkdownTitle(call.file.lines))
  => IF NoLetter(call.file.filename)
       THEN call.out.command = Null /\ call.out.registry = <<>>
       ELSE /\ call.out.command # Null
            /\ call.out.command[1].name = Str(sanitizeCommandName(call.file.filename))
            /\ call.file.filename = MyDoc =>
                 call.out.command[1].name = Str(<<"m","y","-","d","o","c">>)
\* a file with a title of non-ASCII characters only has been parsed under a
\* base name that gives a name
C14_Witness ==
  /\ call.fn = "markdown" /\ call.out.done
  /\ call.file.lines = <<LineNonAscii>> /\ call.file.filename = MyDoc
  /\ call.out.command # Null
  /\ call.out.command[1].name = Str(<<"m","y","-","d","o","c">>)

\* an element of subCommands that is not a valid command
InvalidElement(item) == item.isNull \/ validateCommandErrors(item) # <<>>

\* C19: validateCommand on a command with sub-commands returns (throws
\* nothing) with one defect 'Invalid sub-command at index N' for each invalid
\* index N and none for a valid one, and any such defect rejects the parent.
C19_EverySubCommandReported ==
  call.fn = "module" /\ call.out.done =>
    LET items == call.candidate.subItems
    IN /\ ~call.threw
       /\ \A i \in DOMAIN items :
            InvalidElement(items[i]) <=> HasDefect(call.out.errors, ErrSubCommand(i - 1))
       /\ (\E i \in DOMAIN items : InvalidElement(items[i])) => call.out.command = Null

\* the fenced blocks of a file, in order: a line that starts with a fence
\* opens a block with the rest of the line as its tag, the next line that is
\* a bare fence closes it, and the lines between are its content; a block
\* that is never closed is none
RECURSIVE FencedBlocks(_, _, _)
FencedBlocks(lines, i, openAt) ==
  IF i > Len(lines) THEN <<>>
  ELSE IF openAt = 0
    THEN FencedBlocks(lines, i + 1, IF IsFenceLine(lines[i]) THEN i ELSE 0)
  ELSE IF Trim(lines[i]) = Fence
    THEN << [tag |-> Substring(Trim(lines[openAt]), 3),
             content |-> Trim(JoinLines(SubSeq(lines, openAt + 1, i - 1)))] >>
         \o FencedBlocks(lines, i + 1, 0)
  ELSE FencedBlocks(lines, i + 1, openAt)
ShellTags == { <<"b","a","s","h">>, <<"s","h">>, <<"s","h","e","l","l">> }
IsShellBlock(block) == block.tag \in ShellTags /\ block.content # <<>>
\* the content of the first non-empty block tagged bash, sh or shell, and
\* the empty text when there is none
ExpectedTemplate(lines) ==
  LET shell == SelectSeq(FencedBlocks(lines, 1, 0), IsShellBlock)
  IN IF shell = <<>> THEN <<>> ELSE shell[1].content

\* C21: the shell template of a prose command is the trimmed content of the
\* first non-empty fenced block tagged bash, sh or shell, whatever stands
\* before or after it; a file without such a block has no shell template.
C21_FirstShellBlock ==
  call.fn = "markdown" /\ call.out.done /\ call.out.command # Null =>
    LET action == call.out.command[1].action
        template == ExpectedTemplate(call.file.lines)
    IN IF template # <<>>
         THEN action.kind = "shell-all" /\ action.command = template
         ELSE action.kind # "shell-all"

\* C22: the action of a prose file without a non-empty shell block returns
\* no request for a tool but the prompt variant, whose content is the file's
\* trimmed text, followed by an empty line and the trimmed argument when the
\* argument is not blank.
C22_PromptWithoutShellBlock ==
  /\ call.fn = "markdown" /\ call.out.invoked
  /\ ExpectedTemplate(call.file.lines) = <<>>
  => LET text == Trim(JoinLines(call.file.lines))
         u == Trim(call.out.userArgs)
     IN /\ call.out.returned.type = "ai-prompt"
        /\ call.out.returned.content =
             (IF u # <<>> THEN text \o <<"\n", "\n">> \o u ELSE text)

\* the lines that stand outside every fenced block and are no fence lines
RECURSIVE FencesBefore(_, _)
FencesBefore(lines, i) ==
  IF i <= 1 THEN 0
  ELSE FencesBefore(lines, i - 1) + (IF IsFenceLine(lines[i-1]) THEN 1 ELSE 0)
OutsideBlocks(lines) ==
  { i \in DOMAIN lines : ~IsFenceLine(lines[i]) /\ FencesBefore(lines, i) % 2 = 0 }
SecondLevelHeadings(lines) ==
  { i \in OutsideBlocks(lines) : StartsWith(Trim(lines[i]), H2) }
PlainLines(lines) ==
  { i \in OutsideBlocks(lines) :
      Len(Trim(lines[i])) > 0 /\ ~StartsWith(Trim(lines[i]), Hash) }
Least(S) == CHOOSE i \in S : \A j \in S : i <= j

\* C20: the description of a prose command is the text of the first
\* second-level heading of the file; when the file has none, it is the first
\* non-empty line that is no heading and no line of or inside a fenced block.
C20_DescriptionRule ==
  call.fn = "markdown" /\ call.out.done /\ call.out.command # Null =>
    LET lines == call.file.lines
        description == call.out.command[1].description
    IN IF SecondLevelHeadings(lines) # {}
         THEN description =
                Str(Trim(Substring(Trim(lines[Least(SecondLevelHeadings(lines))]), 3)))
       ELSE PlainLines(lines) # {} =>
                description = Str(Trim(lines[Least(PlainLines(lines))]))
====
